---------------------------- MODULE Spec2Model ----------------------------
(***************************************************************************)
(* zombisave: a polling backup agent for Project Zomboid saves.            *)
(*                                                                         *)
(* The script locates the most recently modified save, makes sure the      *)
(* backup folder exists, scans it for the backups of that save, and then   *)
(* loops: evict the oldest backups while the limit is reached, archive the *)
(* save, sleep, and re-read the save's modification time.                  *)
(*                                                                         *)
(* File names are sequences of one-character strings, so that the          *)
(* substring test, rpartition, removeprefix, removesuffix and int() of the *)
(* script are computed as the script computes them.  Modification times    *)
(* are wall-clock times after the epoch, hence positive integers.          *)
(***************************************************************************)
EXTENDS Integers, Sequences, FiniteSets, TLC

(***************************************************************************)
(* Bounds of the model.                                                    *)
(***************************************************************************)
\* largest backup limit (-n) tried
MaxLimit == 2
\* largest number of entries found in the backup folder at startup
MaxPre == 3
\* number of times the game modifies the save during a run
MaxChanges == 2
\* number of out-of-band changes the user makes to the backup folder
MaxOob == 1

(***************************************************************************)
(* Strings.                                                                *)
(***************************************************************************)
Digits == <<"0", "1", "2", "3", "4", "5", "6", "7", "8", "9">>

DigitSet == {Digits[i] : i \in 1..Len(Digits)}

DigitVal(c) == (CHOOSE i \in 1..Len(Digits) : Digits[i] = c) - 1

\* str.startswith
StartsWith(t, p) == Len(p) <= Len(t) /\ SubSeq(t, 1, Len(p)) = p

\* str.endswith
EndsWith(t, p) == Len(p) <= Len(t) /\ SubSeq(t, Len(t) - Len(p) + 1, Len(t)) = p

\* Python's `p in t` on strings
Contains(t, p) == \E i \in 0..(Len(t) - Len(p)) : SubSeq(t, i + 1, i + Len(p)) = p

\* third component of t.rpartition(sep), sep a single character:
\* the whole of t when sep does not occur in it
RPartitionAfter(t, sep) ==
    LET occ == {i \in 1..Len(t) : <<t[i]>> = sep}
    IN  IF occ = {} THEN t
        ELSE LET last == CHOOSE i \in occ : \A j \in occ : j <= i
             IN  SubSeq(t, last + 1, Len(t))

\* str.removeprefix
RemovePrefix(t, p) == IF StartsWith(t, p) THEN SubSeq(t, Len(p) + 1, Len(t)) ELSE t

\* str.removesuffix
RemoveSuffix(t, p) ==
    IF p # <<>> /\ EndsWith(t, p) THEN SubSeq(t, 1, Len(t) - Len(p)) ELSE t

\* int(t) succeeds: a non-empty run of decimal digits
IsInt(t) == t # <<>> /\ \A i \in 1..Len(t) : t[i] \in DigitSet

RECURSIVE IntOf(_)
\* int(t) for a run of decimal digits
IntOf(t) ==
    IF t = <<>> THEN 0
    ELSE 10 * IntOf(SubSeq(t, 1, Len(t) - 1)) + DigitVal(t[Len(t)])

RECURSIVE StrOfInt(_)
\* the decimal numeral an f-string produces for a natural number
StrOfInt(n) ==
    IF n < 10 THEN <<Digits[n + 1]>>
    ELSE StrOfInt(n \div 10) \o <<Digits[(n % 10) + 1]>>

(***************************************************************************)
(* Script constants.                                                       *)
(***************************************************************************)
\* line 15: the default name of the backup folder
FOLDER_DEFAULT == <<"b", "k", "s">>

SUFFIX_SEPARATOR == <<"_">>

SUFFIX_BEGIN == <<"b", "a", "k">>

ZIP_EXTENSION == <<".", "z", "i", "p">>

(***************************************************************************)
(* State.                                                                  *)
(***************************************************************************)
VARIABLES
    FOLDER_NAME,      \* args.folder: the backup folder name, <<>> ("") for in place
    LIMIT,            \* args.number: the backup limit, 0 = unlimited
    METHOD,           \* "zip" (a zipfile compression method) or "none" (None)
    root,             \* the save root: its playstyle directories and their entries
    pc,               \* the state of the backup loop
    status,           \* exit status of the process, -1 while it runs
    outcome,          \* how the run ended: the error reported, or the uncaught exception
    latest_playstyle, \* playstyle of the active save
    latest_save,      \* name of the active save, <<>> for ""
    latest_modified,  \* modification time of the active save found by the search
    folderExists,     \* BACKUP_PATH exists
    bak,              \* the entries of BACKUP_PATH other than the active save
                      \* directory, in listing order
    backup_num,       \* current backup number
    total_num,        \* total number of backups
    last_mod,         \* modification time of last backup
    current_mod,      \* modification time of save currently
    saveExists,       \* the active save directory exists
    saveMtime,        \* its modification time on disk
    now,              \* the wall clock
    created,          \* history: names handed to the archive producer, in order,
                      \* each with the state of the save that was read for it
    deleted,          \* history: entries removed by eviction, in order
    attempts,         \* history: names eviction tried to delete, <<>> the folder itself
    denied,           \* history: number of deletions refused by the file system
    oob,              \* history: number of out-of-band changes to the backup folder
    changes,          \* history: number of modifications of the save by the game
    checks,           \* history: number of times Checking re-read the modification time
    differed,         \* history: number of those checks that found a change
    failed,           \* history: an archive write or folder creation was refused
    evictStart,       \* history: the folder listing when the eviction loop was entered
    evictDeleted      \* history: entries removed since the eviction loop was entered

vars == <<FOLDER_NAME, LIMIT, METHOD, root, pc, status, outcome, latest_playstyle, latest_save,
          latest_modified, folderExists, bak, backup_num, total_num, last_mod,
          current_mod, saveExists, saveMtime, now, created, deleted, attempts, denied, oob,
          changes, checks, differed, failed, evictStart, evictDeleted>>

config == <<FOLDER_NAME, LIMIT, METHOD, root>>

located == <<latest_playstyle, latest_save, latest_modified>>

counters == <<backup_num, total_num>>

history == <<created, deleted, attempts, denied, oob, changes, checks, differed,
             failed, evictStart, evictDeleted>>

(***************************************************************************)
(* The save root.                                                          *)
(***************************************************************************)
\* names of saves: "s", and "ss", which contains "s"
SaveNames == {<<"s">>, <<"s", "s">>}

\* an entry of a playstyle directory
DirEntry(n, t) == [name |-> n, mtime |-> t]

\* a playstyle directory; listable = os.listdir does not raise on it
Playstyle(n, l, es) == [name |-> n, listable |-> l, entries |-> es]

Root(l, ps) == [listable |-> l, playstyles |-> ps]

RECURSIVE Flatten(_)
\* the (playstyle, save, modified_time) triples in the order of the nested for loops
Flatten(ps) ==
    IF ps = <<>> THEN <<>>
    ELSE LET p == Head(ps)
         IN  [i \in 1..Len(p.entries) |->
                 [playstyle |-> p.name, save |-> p.entries[i].name,
                  modified |-> p.entries[i].mtime]] \o Flatten(Tail(ps))

\* line 97: the entry is our backup folder
Ignored(save) == save = FOLDER_NAME

\* a mutant of Later: the older candidate wins
LaterReversed(modified_time, latest) == modified_time < latest

\* line 101: the candidate replaces the latest found so far
Later(modified_time, latest) == modified_time > latest

RECURSIVE Search(_, _)
\* the body of the nested for loops over the candidates, acc the three latest_ variables
Search(cands, acc) ==
    IF cands = <<>> THEN acc
    ELSE LET c == Head(cands)
         IN  IF Ignored(c.save) THEN Search(Tail(cands), acc)
             ELSE IF Later(c.modified, acc.modified) THEN Search(Tail(cands), c)
             ELSE Search(Tail(cands), acc)

\* the three latest_ variables after the search
FindLatest(r) ==
    Search(Flatten(r.playstyles),
           [playstyle |-> r.playstyles[1].name, save |-> <<>>, modified |-> 0])

(***************************************************************************)
(* The backup folder.                                                      *)
(***************************************************************************)
\* an entry of the backup folder: an archive file ("file"), a directory that
\* holds a copied save tree ("dir") or a directory with nothing in it ("emptydir")
Entry(n, k, t) == [name |-> n, kind |-> k, mtime |-> t]

\* lines 133 and 155: `latest_save in backup`
Matches(name, save) == Contains(name, save)

\* the entries of a listing that the script takes for backups of the save
Matching(listing, save) == SelectSeq(listing, LAMBDA e : Matches(e.name, save))

\* lines 137-138: what is left of the name for int()
NumberPart(name) ==
    RemoveSuffix(RemovePrefix(RPartitionAfter(name, SUFFIX_SEPARATOR), SUFFIX_BEGIN),
                 ZIP_EXTENSION)

\* the startup scan raises ValueError: int() of some matching entry fails
ScanRaises(listing, save) ==
    \E i \in 1..Len(listing) :
        Matches(listing[i].name, save) /\ ~IsInt(NumberPart(listing[i].name))

\* a mutant of NextNum: the number of the entry itself, not one higher
NextNumSame(after, num) == IF after >= num THEN after ELSE num

\* lines 139-140: the initial backup number after one more parsed number
NextNum(after, num) == IF after >= num THEN after + 1 ELSE num

RECURSIVE ScanNum(_, _, _)
\* lines 132-140: backup_num after the scan of the listing, num its value so far
ScanNum(listing, save, num) ==
    IF listing = <<>> THEN num
    ELSE LET e == Head(listing)
         IN  IF Matches(e.name, save)
             THEN ScanNum(Tail(listing), save, NextNum(IntOf(NumberPart(e.name)), num))
             ELSE ScanNum(Tail(listing), save, num)

\* lines 132-134: total_num after the scan of the listing
ScanTotal(listing, save) == Len(Matching(listing, save))

\* a mutant of Earlier: the newest entry is selected for deletion
EarlierReversed(modified_time, earliest_mod) ==
    earliest_mod = 0 \/ modified_time > earliest_mod

\* line 157: the entry replaces the earliest found so far
Earlier(modified_time, earliest_mod) ==
    earliest_mod = 0 \/ modified_time < earliest_mod

RECURSIVE Earliest(_, _, _)
\* lines 151-159: earliest_backup and earliest_mod after the scan of the listing
Earliest(listing, save, acc) ==
    IF listing = <<>> THEN acc
    ELSE LET e == Head(listing)
         IN  IF Matches(e.name, save) /\ Earlier(e.mtime, acc.mod)
             THEN Earliest(Tail(listing), save, [backup |-> e.name, mod |-> e.mtime])
             ELSE Earliest(Tail(listing), save, acc)

\* earliest_backup as line 161 prints it, <<>> for ""
EarliestBackup(listing, save) ==
    Earliest(listing, save, [backup |-> <<>>, mod |-> 0]).backup

\* a mutant of EvictNeeded: the limit is enforced even when it is 0
EvictNeededAlways(limit, total) == total >= limit

\* a mutant of EvictNeeded: > for >=
EvictNeededOver(limit, total) == limit # 0 /\ total > limit

\* lines 149-150: `if LIMIT` and `while total_num >= LIMIT`
EvictNeeded(limit, total) == limit # 0 /\ total >= limit

\* lines 174-175: the extension of the backup name
SuffixExtension(method) == IF method = "none" THEN <<>> ELSE ZIP_EXTENSION

\* lines 177 and 182: the f-string
BackupName(save, num, method) ==
    save \o SUFFIX_SEPARATOR \o SUFFIX_BEGIN \o StrOfInt(num) \o SuffixExtension(method)

\* the entry of that name in the listing exists (os.path.exists)
Exists(listing, name) == \E i \in 1..Len(listing) : listing[i].name = name

\* line 180: os.path.isfile
IsFile(listing, name) ==
    \E i \in 1..Len(listing) : listing[i].name = name /\ listing[i].kind = "file"

RECURSIVE FreeNum(_, _, _, _)
\* lines 180-182: backup_num after the collision loop
FreeNum(listing, save, num, method) ==
    IF IsFile(listing, BackupName(save, num, method))
    THEN FreeNum(listing, save, num + 1, method)
    ELSE num

\* the listing without its entry of that name
Without(listing, name) == SelectSeq(listing, LAMBDA e : e.name # name)

\* the entry of that name
EntryOf(listing, name) == listing[CHOOSE i \in 1..Len(listing) : listing[i].name = name]

\* lines 52-53 and 114: with the folder "." BACKUP_PATH is the playstyle directory
InPlace == FOLDER_NAME = <<>>

\* os.listdir(BACKUP_PATH): in place, the active save directory is listed too
Listing ==
    IF InPlace /\ saveExists
    THEN <<Entry(latest_save, "dir", saveMtime)>> \o bak
    ELSE bak

(***************************************************************************)
(* The file system the script is started in.                               *)
(***************************************************************************)
SaveS == <<"s">>

SaveSS == <<"s", "s">>

\* the save roots of the backup loop's runs: unreadable or without saves, with
\* the active save "ss" and no backup folder yet, and with the active save "s"
\* in the second playstyle, next to a backup folder that is newer than it
MainRoots ==
    { Root(FALSE, <<>>),
      Root(TRUE, <<>>),
      Root(TRUE, <<Playstyle("p1", TRUE, <<>>)>>),
      Root(TRUE, <<Playstyle("p1", TRUE, <<DirEntry(FOLDER_DEFAULT, 1)>>),
                   Playstyle("p2", TRUE, <<DirEntry(FOLDER_DEFAULT, 2)>>)>>),
      Root(TRUE, <<Playstyle("p1", FALSE, <<>>)>>),
      Root(TRUE, <<Playstyle("p1", TRUE, <<DirEntry(SaveS, 1), DirEntry(SaveSS, 2)>>)>>),
      Root(TRUE, <<Playstyle("p1", TRUE, <<DirEntry(SaveSS, 1)>>),
                   Playstyle("p2", TRUE, <<DirEntry(FOLDER_DEFAULT, 3), DirEntry(SaveS, 2)>>)>>) }

\* a save whose name int() accepts
Save7 == <<"7">>

\* the save roots of the runs in place (folder "."), the newest entry of the
\* playstyle directory being a save directory: the save "7" alone, "7" after an
\* archive of it that an earlier run left next to it, and the save "s" alone
InPlaceRoots ==
    { Root(TRUE, <<Playstyle("p1", TRUE, <<DirEntry(Save7, 1)>>)>>),
      Root(TRUE, <<Playstyle("p1", TRUE, <<DirEntry(BackupName(Save7, 0, "zip"), 1),
                                           DirEntry(Save7, 2)>>)>>),
      Root(TRUE, <<Playstyle("p1", TRUE, <<DirEntry(SaveS, 1)>>)>>) }

\* what earlier runs may have left in the backup folder, oldest first: an
\* archive of "s" (number 0), an archive of "ss", whose name contains "s", a
\* plain copy of "s" (number 2), an archive of another save, and a later archive
\* of "s" (number 3)
Catalogue ==
    << [name |-> BackupName(SaveS, 0, "zip"), kind |-> "file"],
       [name |-> BackupName(SaveSS, 4, "zip"), kind |-> "file"],
       [name |-> BackupName(SaveS, 2, "none"), kind |-> "dir"],
       [name |-> BackupName(<<"t">>, 0, "zip"), kind |-> "file"],
       [name |-> BackupName(SaveS, 3, "zip"), kind |-> "file"] >>

\* a file the user has put there, whose name contains "s" and ends in no number
Stray == Entry(SaveS \o SUFFIX_SEPARATOR \o <<"o", "l", "d">>, "file", Len(Catalogue) + 1)

\* the listings of a backup folder of k of the catalogue's entries, in every
\* listing order
ContentsOf(k) ==
    { [i \in 1..k |-> Entry(Catalogue[c[i]].name, Catalogue[c[i]].kind, c[i])] :
        c \in { d \in [1..k -> 1..Len(Catalogue)] :
                  \A i, j \in 1..k : i # j => d[i] # d[j] } }

\* the backup folder as it is found: up to MaxPre entries of the catalogue, or
\* the stray file, alone or after a backup
FolderContents ==
    UNION { ContentsOf(k) : k \in 0..MaxPre }
    \cup {<<Stray>>, <<Entry(Catalogue[1].name, Catalogue[1].kind, 1), Stray>>}

\* the wall clock at startup: later than every modification time on disk
StartTime == Len(Catalogue) + 2

(***************************************************************************)
(* Initial state: the script's module-level assignments (lines 67-71,      *)
(* 127, 130, 142-143) in some file system.                                 *)
(***************************************************************************)
InitRun ==
    /\ pc = "Locating"
    /\ status = -1
    /\ outcome = ""
    /\ latest_playstyle = ""
    /\ latest_save = <<>>
    /\ latest_modified = 0
    /\ folderExists = FALSE
    /\ bak = <<>>
    /\ backup_num = 0
    /\ total_num = 0
    /\ last_mod = 0
    /\ current_mod = 1
    /\ saveExists = FALSE
    /\ saveMtime = 0
    /\ now = StartTime
    /\ created = <<>>
    /\ deleted = <<>>
    /\ attempts = <<>>
    /\ denied = 0
    /\ oob = 0
    /\ changes = 0
    /\ checks = 0
    /\ differed = 0
    /\ failed = FALSE
    /\ evictStart = <<>>
    /\ evictDeleted = <<>>

Init ==
    /\ FOLDER_NAME = FOLDER_DEFAULT
    /\ LIMIT \in 0..MaxLimit
    /\ METHOD \in {"zip", "none"}
    /\ root \in MainRoots
    /\ InitRun

(***************************************************************************)
(* The script.                                                             *)
(***************************************************************************)
\* sys.exit(st), or the interpreter's exit on the uncaught exception oc
Exit(st, oc) == pc' = "Terminated" /\ status' = st /\ outcome' = oc

\* a mutant of NoSaveFound: the search result is never taken for empty
NoSaveFoundNever(save) == FALSE

\* line 107: the search found no save
NoSaveFound(save) == save = <<>>

\* lines 76-111: choose the save to back up
Locate ==
    /\ pc = "Locating"
    /\ IF ~root.listable
       THEN Exit(1, "AccessDenied") /\ UNCHANGED <<located, saveExists, saveMtime>>
       ELSE IF root.playstyles = <<>>
       THEN Exit(1, "NoSavesFound") /\ UNCHANGED <<located, saveExists, saveMtime>>
       ELSE IF \E i \in 1..Len(root.playstyles) : ~root.playstyles[i].listable
       THEN Exit(1, "PermissionError") /\ UNCHANGED <<located, saveExists, saveMtime>>
       ELSE LET r == FindLatest(root)
            IN  /\ latest_playstyle' = r.playstyle
                /\ latest_save' = r.save
                /\ latest_modified' = r.modified
                /\ IF NoSaveFound(r.save)
                   THEN Exit(1, "NoSavesFound") /\ UNCHANGED <<saveExists, saveMtime>>
                   ELSE /\ pc' = "Preparing"
                        /\ saveExists' = TRUE
                        /\ saveMtime' = r.modified
                        /\ UNCHANGED <<status, outcome>>
    /\ UNCHANGED <<config, folderExists, bak, counters, last_mod, current_mod, now,
                   history>>

\* an entry of a playstyle directory is an archive file or a save directory
KindOf(name) == IF EndsWith(name, ZIP_EXTENSION) THEN "file" ELSE "dir"

\* the entries of the active save's playstyle directory other than the save
OtherEntries ==
    LET p == root.playstyles[CHOOSE i \in 1..Len(root.playstyles) :
                                 root.playstyles[i].name = latest_playstyle]
        es == SelectSeq(p.entries, LAMBDA e : e.name # latest_save)
    IN  [i \in 1..Len(es) |-> Entry(es[i].name, KindOf(es[i].name), es[i].mtime)]

\* the playstyle directory of the active save holds an entry named FOLDER_NAME
FolderListed ==
    \E i \in 1..Len(root.playstyles) :
        /\ root.playstyles[i].name = latest_playstyle
        /\ \E j \in 1..Len(root.playstyles[i].entries) :
               root.playstyles[i].entries[j].name = FOLDER_NAME

\* lines 113-121: create the backup directory, if it doesn't already exist;
\* a directory that exists holds whatever was left in it, and bak is its listing
\* from here on
Prepare ==
    /\ pc = "Preparing"
    /\ IF InPlace
       THEN \* BACKUP_PATH is the playstyle directory: FileExistsError, pass
            /\ bak' = OtherEntries
            /\ folderExists' = TRUE
            /\ pc' = "Scanning"
            /\ UNCHANGED <<status, outcome, failed>>
       ELSE IF FolderListed
       THEN /\ bak' \in FolderContents
            /\ folderExists' = TRUE
            /\ pc' = "Scanning"
            /\ UNCHANGED <<status, outcome, failed>>
       ELSE \/ /\ bak' = <<>>
               /\ folderExists' = TRUE
               /\ pc' = "Scanning"
               /\ UNCHANGED <<status, outcome, failed>>
            \/ /\ Exit(1, "PermissionDenied")
               /\ failed' = TRUE
               /\ UNCHANGED <<bak, folderExists>>
    /\ UNCHANGED <<config, located, counters, last_mod, current_mod, saveExists,
                   saveMtime, now, created, deleted, attempts, denied, oob, changes,
                   checks, differed, evictStart, evictDeleted>>

\* lines 123-143: set the initial backup number and the number of backups
Scan ==
    /\ pc = "Scanning"
    /\ IF ScanRaises(Listing, latest_save)
       THEN /\ Exit(1, "ValueError")
            /\ UNCHANGED <<counters, evictStart>>
       ELSE /\ backup_num' = ScanNum(Listing, latest_save, 0)
            /\ total_num' = ScanTotal(Listing, latest_save)
            /\ pc' = "Evicting"
            /\ evictStart' = bak
            /\ UNCHANGED <<status, outcome>>
    /\ UNCHANGED <<config, located, folderExists, bak, last_mod, current_mod,
                   saveExists, saveMtime, now, created, deleted, attempts, denied, oob,
                   changes, checks, differed, failed, evictDeleted>>

\* a mutant of DeletionDenied: the count is left as it is after the refusal
DeletionDeniedRetry ==
    /\ denied' = denied + 1
    /\ UNCHANGED <<pc, status, outcome, bak, folderExists, total_num, deleted,
                   evictDeleted>>

\* lines 168-171: the PermissionError is caught and reported, the count goes down
DeletionDenied ==
    /\ denied' = denied + 1
    /\ total_num' = total_num - 1
    /\ UNCHANGED <<pc, status, outcome, bak, folderExists, deleted, evictDeleted>>

\* lines 150-171: one turn of the eviction loop
EvictOne ==
    /\ pc = "Evicting"
    /\ EvictNeeded(LIMIT, total_num)
    /\ IF ~folderExists
       THEN /\ Exit(1, "FileNotFoundError")
            /\ UNCHANGED <<bak, folderExists, total_num, deleted, attempts, denied,
                           evictDeleted>>
       ELSE LET target == EarliestBackup(Listing, latest_save)
            IN  /\ attempts' = Append(attempts, target)
                /\ IF target = <<>>
                   THEN \* backup_path is BACKUP_PATH itself, a directory
                        \/ /\ Listing = <<>>
                           /\ folderExists' = FALSE
                           /\ total_num' = total_num - 1
                           /\ UNCHANGED <<pc, status, outcome, bak, deleted, denied,
                                          evictDeleted>>
                        \/ /\ Listing # <<>>
                           /\ Exit(1, "OSError")
                           /\ UNCHANGED <<bak, folderExists, total_num, deleted, denied,
                                          evictDeleted>>
                        \/ DeletionDenied
                   ELSE \/ /\ EntryOf(Listing, target).kind # "dir"
                           /\ bak' = Without(bak, target)
                           /\ deleted' = Append(deleted, EntryOf(Listing, target))
                           /\ evictDeleted' = Append(evictDeleted, EntryOf(Listing, target))
                           /\ total_num' = total_num - 1
                           /\ UNCHANGED <<pc, status, outcome, folderExists, denied>>
                        \/ \* os.rmdir of a directory that is not empty
                           /\ EntryOf(Listing, target).kind = "dir"
                           /\ Exit(1, "OSError")
                           /\ UNCHANGED <<bak, folderExists, total_num, deleted, denied,
                                          evictDeleted>>
                        \/ DeletionDenied
    /\ UNCHANGED <<config, located, backup_num, last_mod, current_mod, saveExists,
                   saveMtime, now, created, oob, changes, checks, differed, failed,
                   evictStart>>

\* the kind of the artifact the archive producer leaves
ArtifactKind(method) == IF method = "none" THEN "dir" ELSE "file"

\* the modification time of the artifact: a zip file is written now (line 191),
\* shutil.copytree ends with copystat, which gives the copy the modification
\* time of the save directory (line 215)
ArtifactTime(method, save_time, clock) == IF method = "none" THEN save_time ELSE clock

\* lines 194-211 and 215: what the producer reads is the save as it is then,
\* told by its modification time; nothing (0) if the save is gone
Snapshot(exists, save_time) == IF exists THEN save_time ELSE 0

\* a mutant of NumAfter: the number is not advanced
NumAfterSame(num) == num

\* line 222: backup_num += 1
NumAfter(num) == num + 1

\* lines 173-222: name the backup, write it, count it
Archive ==
    /\ pc = "Evicting"
    /\ ~EvictNeeded(LIMIT, total_num)
    /\ LET num == FreeNum(Listing, latest_save, backup_num, METHOD)
           name == BackupName(latest_save, num, METHOD)
           artifact == Entry(name, ArtifactKind(METHOD),
                             ArtifactTime(METHOD, saveMtime, now))
       IN  /\ created' = Append(created, [name |-> name, num |-> num,
                                          existed |-> Exists(Listing, name),
                                          content |-> Snapshot(saveExists, saveMtime)])
           /\ IF METHOD = "none" /\ ~saveExists
              THEN \* shutil.copytree lists the source first
                   /\ Exit(1, "FileNotFoundError")
                   /\ UNCHANGED <<bak, folderExists, counters, now, failed>>
              ELSE IF Exists(Listing, name)
              THEN \* mode 'x' of ZipFile, os.makedirs of copytree
                   /\ Exit(1, "FileExistsError")
                   /\ UNCHANGED <<bak, folderExists, counters, now, failed>>
              ELSE IF METHOD = "zip" /\ ~folderExists
              THEN /\ Exit(1, "FileNotFoundError")
                   /\ UNCHANGED <<bak, folderExists, counters, now, failed>>
              ELSE \/ /\ bak' = Append(bak, artifact)
                      \* os.makedirs of copytree creates the parents it misses
                      /\ folderExists' = TRUE
                      /\ now' = now + 1
                      /\ total_num' = total_num + 1
                      /\ backup_num' = NumAfter(num)
                      /\ pc' = "Recording"
                      /\ UNCHANGED <<status, outcome, failed>>
                   \/ \* lines 202-205, 216-218: the PermissionError that is caught;
                      \* the zip file was created by then, the copy was not
                      /\ saveExists
                      /\ Exit(1, "PermissionDenied")
                      /\ failed' = TRUE
                      /\ bak' = IF METHOD = "zip" THEN Append(bak, artifact) ELSE bak
                      /\ now' = IF METHOD = "zip" THEN now + 1 ELSE now
                      /\ UNCHANGED <<folderExists, counters>>
                   \/ \* lines 191 and 211: the PermissionError that no handler
                      \* catches, on creating the zip file
                      /\ METHOD = "zip"
                      /\ Exit(1, "PermissionError")
                      /\ failed' = TRUE
                      /\ UNCHANGED <<bak, folderExists, counters, now>>
    /\ UNCHANGED <<config, located, last_mod, current_mod, saveExists, saveMtime,
                   deleted, attempts, denied, oob, changes, checks, differed,
                   evictStart, evictDeleted>>

\* a mutant of Baseline: the time of the artifact just written
BaselineOfArtifact(save_time, artifact_time) == artifact_time

\* line 223: the time recorded as the time of the last backup
Baseline(save_time, artifact_time) == save_time

\* line 223: last_mod = os.path.getmtime of the save
Record ==
    /\ pc = "Recording"
    /\ IF saveExists
       THEN /\ last_mod' = Baseline(saveMtime,
                                    EntryOf(bak, created[Len(created)].name).mtime)
            /\ pc' = "Sleeping"
            /\ UNCHANGED <<status, outcome>>
       ELSE Exit(1, "FileNotFoundError") /\ UNCHANGED last_mod
    /\ UNCHANGED <<config, located, folderExists, bak, counters, current_mod,
                   saveExists, saveMtime, now, history>>

\* a mutant of InterruptExit: the interruption is reported as an error
InterruptExitError == Exit(1, "Interrupted")

\* lines 231-232: print("Exiting") and sys.exit()
InterruptExit == Exit(0, "Interrupted")

\* lines 228-232: Ctrl+C during time.sleep
Interrupt ==
    /\ pc = "Sleeping"
    /\ InterruptExit
    /\ UNCHANGED <<config, located, folderExists, bak, counters, last_mod,
                   current_mod, saveExists, saveMtime, now, history>>

\* a mutant of Modified: the loop goes on when the save is unchanged
ModifiedReversed(current, last) == current = last

\* line 146: the condition of the backup loop
Modified(current, last) == current # last

\* lines 229, 234-241 and 146: the sleep ends, the save is checked
Check ==
    /\ pc = "Sleeping"
    /\ checks' = checks + 1
    /\ IF ~saveExists
       THEN /\ Exit(1, "SaveRemoved")
            /\ UNCHANGED <<current_mod, differed, evictStart, evictDeleted>>
       ELSE /\ current_mod' = saveMtime
            /\ differed' = IF saveMtime # last_mod THEN differed + 1 ELSE differed
            /\ IF Modified(saveMtime, last_mod)
               THEN /\ pc' = "Evicting"
                    /\ evictStart' = bak
                    /\ evictDeleted' = <<>>
                    /\ UNCHANGED <<status, outcome>>
               ELSE /\ Exit(0, "Unchanged")
                    /\ UNCHANGED <<evictStart, evictDeleted>>
    /\ UNCHANGED <<config, located, folderExists, bak, counters, last_mod,
                   saveExists, saveMtime, now, created, deleted, attempts, denied, oob,
                   changes, failed>>

(***************************************************************************)
(* The environment: the game and the user.                                 *)
(***************************************************************************)
\* the game writes to the save, while it is archived or during a sleep
ModifySave ==
    /\ pc \in {"Recording", "Sleeping"}
    /\ saveExists
    /\ changes < MaxChanges
    /\ saveMtime' = now
    /\ now' = now + 1
    /\ changes' = changes + 1
    /\ UNCHANGED <<config, pc, status, outcome, located, folderExists, bak, counters,
                   last_mod, current_mod, saveExists, created, deleted, attempts,
                   denied, oob, checks, differed, failed, evictStart, evictDeleted>>

\* the save is renamed or deleted: before it is archived (the eviction loop does
\* not read it), while it is archived, or during a sleep
RemoveSave ==
    /\ \/ pc = "Evicting" /\ ~EvictNeeded(LIMIT, total_num)
       \/ pc \in {"Recording", "Sleeping"}
    /\ saveExists
    /\ saveExists' = FALSE
    /\ UNCHANGED <<config, pc, status, outcome, located, folderExists, bak, counters,
                   last_mod, current_mod, saveMtime, now, history>>

\* the user deletes a backup of the save during a sleep (the script reads nothing
\* of the other entries)
UserDelete ==
    /\ pc = "Sleeping"
    /\ oob < MaxOob
    /\ \E i \in 1..Len(bak) :
           /\ Contains(bak[i].name, latest_save)
           /\ bak' = Without(bak, bak[i].name)
    /\ oob' = oob + 1
    /\ UNCHANGED <<config, pc, status, outcome, located, folderExists, counters,
                   last_mod, current_mod, saveExists, saveMtime, now, created, deleted,
                   attempts, denied, changes, checks, differed, failed, evictStart,
                   evictDeleted>>

\* the user puts an entry, a file or a directory, empty or not, at the name the
\* next backup would get
UserAdd ==
    /\ pc = "Sleeping"
    /\ oob < MaxOob
    /\ folderExists
    /\ ~Exists(bak, BackupName(latest_save, backup_num, METHOD))
    /\ \E k \in {"file", "dir", "emptydir"} :
           bak' = Append(bak, Entry(BackupName(latest_save, backup_num, METHOD), k, now))
    /\ now' = now + 1
    /\ oob' = oob + 1
    /\ UNCHANGED <<config, pc, status, outcome, located, folderExists, counters,
                   last_mod, current_mod, saveExists, saveMtime, created, deleted,
                   attempts, denied, changes, checks, differed, failed, evictStart,
                   evictDeleted>>

Next ==
    \/ Locate
    \/ Prepare
    \/ Scan
    \/ EvictOne
    \/ Archive
    \/ Record
    \/ Interrupt
    \/ Check
    \/ ModifySave
    \/ RemoveSave

\* the script and the game, the backup folder left to the script
Spec == Init /\ [][Next]_vars

NextUser ==
    \/ Next
    \/ UserDelete
    \/ UserAdd

\* the script alone, the game leaving the save as it is
NextScript ==
    \/ Locate
    \/ Prepare
    \/ Scan
    \/ EvictOne
    \/ Archive
    \/ Record
    \/ Interrupt
    \/ Check

\* the script does not stop between two statements: a turn of the eviction
\* loop or the archiving that is due is eventually executed
SpecFair == Init /\ [][NextScript]_vars /\ WF_vars(EvictOne) /\ WF_vars(Archive)

\* the script, the game and a user who changes the backup folder during sleeps
SpecUser == Init /\ [][NextUser]_vars

InitInPlace ==
    /\ FOLDER_NAME = <<>>
    /\ LIMIT \in 0..MaxLimit
    /\ METHOD \in {"zip", "none"}
    /\ root \in InPlaceRoots
    /\ InitRun

\* the script and the game, the backups written into the playstyle directory
SpecInPlace == InitInPlace /\ [][Next]_vars

(***************************************************************************)
(* The save search on its own, over every small save root.                 *)
(***************************************************************************)
\* largest number of entries of a playstyle directory
MaxEntries == 2
\* latest modification time of an entry of a playstyle directory
MaxSaveTime == 2

PlaystyleNames == {"p1", "p2"}

EntryNames == SaveNames \cup {FOLDER_DEFAULT}

\* the listings of a playstyle directory of k entries, names distinct; the
\* backup folder may be newer than every save
ListingsOf(k) ==
    { [i \in 1..k |-> DirEntry(d[i][1], d[i][2])] :
        d \in { c \in [1..k -> EntryNames \X (1..MaxSaveTime + 1)] :
                  /\ \A i, j \in 1..k : i # j => c[i][1] # c[j][1]
                  /\ \A i \in 1..k : c[i][1] \in SaveNames => c[i][2] <= MaxSaveTime } }

Listings == UNION { ListingsOf(k) : k \in 0..MaxEntries }

\* the save roots of up to two playstyles, in either listing order, their
\* listings drawn from ls
LocatorRoots(ls) ==
    {Root(TRUE, <<>>)}
    \cup { Root(TRUE, <<Playstyle(n, TRUE, l)>>) : n \in PlaystyleNames, l \in ls }
    \cup { Root(TRUE, <<Playstyle(n[1], TRUE, l1), Playstyle(n[2], TRUE, l2)>>) :
             n \in {<<"p1", "p2">>, <<"p2", "p1">>}, l1 \in ls, l2 \in ls }

InitLocator ==
    /\ FOLDER_NAME \in {FOLDER_DEFAULT, <<>>}
    /\ LIMIT = 0
    /\ METHOD = "zip"
    /\ root \in LocatorRoots(Listings)
    /\ InitRun

SpecLocator == InitLocator /\ [][Locate]_vars

(***************************************************************************)
(* Properties.                                                             *)
(***************************************************************************)
EntrySet(listing) == {listing[i] : i \in 1..Len(listing)}

\* the entries of a listing that are associated with the active save: those
\* whose name contains the save's name
Backups(listing) == {e \in EntrySet(listing) : Contains(e.name, latest_save)}

Names(entries) == {e.name : e \in entries}

\* no deletion was refused and the user left the backup folder alone
Undisturbed == denied = 0 /\ oob = 0

\* C1: with a limit L > 0, in archive-file mode, with no deletion failure and no
\* out-of-band change, after every completed archiving step the folder holds
\* at most L backups of the active save, L of them once one was evicted, every
\* one of them newer than every evicted one; with L = 1 the one backup is the
\* one taken last
C1_RotationKeepsNewest ==
    (LIMIT > 0 /\ METHOD = "zip" /\ Undisturbed /\ pc \in {"Recording", "Sleeping"}) =>
        LET kept == Backups(bak)
            gone == EntrySet(deleted)
        IN  /\ Cardinality(kept) <= LIMIT
            /\ gone # {} => Cardinality(kept) = LIMIT
            /\ \A d \in gone : Contains(d.name, latest_save)
            /\ \A d \in gone : \A e \in kept : d.mtime < e.mtime
            /\ created[Len(created)].name \in Names(kept)
            /\ LIMIT = 1 => Names(kept) = {created[Len(created)].name}

\* C1 witness: limit 1, two cycles done, the first backup evicted
C1_Witness ==
    /\ LIMIT = 1 /\ METHOD = "zip" /\ Undisturbed /\ pc = "Sleeping"
    /\ Len(created) = 2
    /\ created[1].name \in Names(EntrySet(deleted))
    /\ Names(Backups(bak)) = {created[2].name}

\* the eviction loop has run to its end in a cycle that began with more backups
\* of the active save than the limit, all deletions having succeeded
EvictionRan ==
    /\ pc = "Evicting" /\ ~(LIMIT # 0 /\ total_num >= LIMIT)
    /\ LIMIT > 0 /\ Undisturbed
    /\ Cardinality(Backups(evictStart)) > LIMIT

\* the k oldest of a set of entries of distinct modification times
Oldest(entries, k) ==
    {e \in entries : Cardinality({f \in entries : f.mtime < e.mtime}) < k}

\* C2 as claimed: one run of the eviction loop that starts with C > L backups of
\* the active save deletes exactly the C - L oldest and leaves the L newest
C2_EvictsDownToLimit ==
    EvictionRan =>
        LET start == Backups(evictStart)
        IN  /\ EntrySet(evictDeleted) = Oldest(start, Cardinality(start) - LIMIT)
            /\ Backups(bak) = start \ EntrySet(evictDeleted)
            /\ Cardinality(Backups(bak)) = LIMIT

\* C2 amended: such a run deletes exactly the C - L + 1 oldest and leaves the
\* L - 1 newest untouched, whatever the listing order
C2_EvictsBelowLimit ==
    EvictionRan =>
        LET start == Backups(evictStart)
        IN  /\ EntrySet(evictDeleted) = Oldest(start, Cardinality(start) - LIMIT + 1)
            /\ Len(evictDeleted) = Cardinality(start) - LIMIT + 1
            /\ Backups(bak) = start \ EntrySet(evictDeleted)
            /\ Cardinality(Backups(bak)) = LIMIT - 1
            /\ EntrySet(bak) \ Backups(bak) = EntrySet(evictStart) \ start

\* C2 witness: limit 1, two backups found, both deleted, and the older one was
\* listed after the newer one
C2_Witness ==
    /\ EvictionRan
    /\ LIMIT = 1
    /\ Len(evictStart) = 2 /\ Cardinality(Backups(evictStart)) = 2
    /\ evictStart[1].mtime > evictStart[2].mtime
    /\ Len(evictDeleted) = 2

\* C3: with no limit and no failure, a run that ends on an unchanged save ends
\* with status 0 after n + 1 backups, n the number of checks that found the
\* modification time changed, and every one of them is in the folder
C3_OneBackupPerChange ==
    (pc = "Terminated" /\ outcome = "Unchanged" /\ LIMIT = 0 /\ oob = 0) =>
        /\ status = 0
        /\ checks = differed + 1
        /\ Len(created) = differed + 1
        /\ \A i \in 1..Len(created) : ~created[i].existed
        /\ Cardinality({created[i].name : i \in 1..Len(created)}) = differed + 1
        /\ {created[i].name : i \in 1..Len(created)} \subseteq Names(EntrySet(bak))
        /\ Len(bak) = Len(evictStart) + 1

\* C3 witness: the save changed once, two backups were taken
C3_Witness ==
    /\ pc = "Terminated" /\ outcome = "Unchanged" /\ LIMIT = 0 /\ oob = 0
    /\ differed = 1
    /\ Len(created) = 2

\* C4 as claimed: no name handed to the archive producer exists in the backup
\* folder at that moment
C4_NameIsFree == \A i \in 1..Len(created) : ~created[i].existed

\* the candidates of the save search: the entries not named like the backup folder
Eligible(r) ==
    { [playstyle |-> r.playstyles[i].name,
       save |-> r.playstyles[i].entries[j].name,
       modified |-> r.playstyles[i].entries[j].mtime] :
        <<i, j>> \in { x \in (1..Len(r.playstyles)) \X (1..MaxEntries + 1) :
                         /\ x[2] <= Len(r.playstyles[x[1]].entries)
                         /\ r.playstyles[x[1]].entries[x[2]].name # FOLDER_NAME } }

DistinctTimes(r) ==
    \A a, b \in Eligible(r) : a # b => a.modified # b.modified

\* C5: when the saves bear distinct modification times, the search selects the
\* playstyle and save of the maximum modification time over all playstyles,
\* never an entry named like the backup folder
C5_LatestSaveSelected ==
    (pc # "Locating" /\ root.listable /\ Eligible(root) # {} /\ DistinctTimes(root)
        /\ \A i \in 1..Len(root.playstyles) : root.playstyles[i].listable) =>
        /\ pc # "Terminated" \/ outcome # "NoSavesFound"
        /\ [playstyle |-> latest_playstyle, save |-> latest_save,
            modified |-> latest_modified] \in Eligible(root)
        /\ \A c \in Eligible(root) : c.modified <= latest_modified
        /\ latest_save # FOLDER_NAME

\* C5 witness: the latest save is in the second playstyle listed, after a backup
\* folder that is newer, and an older save is in the first
C5_Witness ==
    /\ pc = "Preparing"
    /\ Len(root.playstyles) = 2
    /\ DistinctTimes(root)
    /\ Cardinality(Eligible(root)) >= 2
    /\ latest_playstyle = root.playstyles[2].name
    /\ Len(root.playstyles[2].entries) = 2
    /\ root.playstyles[2].entries[1].name = FOLDER_NAME
    /\ root.playstyles[2].entries[1].mtime > latest_modified

\* the save root has no playstyle, or its playstyles hold nothing but backup folders
NoSaves(r) ==
    /\ r.listable
    /\ \A i \in 1..Len(r.playstyles) :
           /\ r.playstyles[i].listable
           /\ \A j \in 1..Len(r.playstyles[i].entries) :
                  r.playstyles[i].entries[j].name = FOLDER_NAME

\* C6: in a save root without saves the run ends with NoSavesFound and a non-zero
\* status, no backup folder created, no backup created or deleted
C6_NoSavesFound ==
    NoSaves(root) =>
        \/ pc = "Locating"
        \/ /\ pc = "Terminated" /\ outcome = "NoSavesFound" /\ status = 1
           /\ ~folderExists /\ bak = <<>>
           /\ created = <<>> /\ deleted = <<>> /\ attempts = <<>>

\* C6 witness: two playstyles that hold their backup folders only
C6_Witness ==
    /\ pc = "Terminated" /\ outcome = "NoSavesFound"
    /\ Len(root.playstyles) = 2
    /\ \A i \in 1..2 : Len(root.playstyles[i].entries) = 1

\* C7: with limit 0 no step deletes or tries to delete an entry, and after the
\* startup scan the count changes only by one, with a backup being archived
C7_NoLimitNoEviction ==
    [][LIMIT = 0 =>
          /\ deleted' = deleted /\ attempts' = attempts /\ denied' = denied
          /\ EntrySet(bak) \subseteq EntrySet(bak') \/ oob' # oob
          /\ (pc # "Scanning" /\ total_num' # total_num) =>
                 /\ total_num' = total_num + 1
                 /\ Len(created') = Len(created) + 1
                 /\ Len(bak') = Len(bak) + 1]_vars

\* C7 witness: limit 0, two backups archived on top of two found at startup
C7_Witness ==
    /\ LIMIT = 0 /\ pc = "Sleeping"
    /\ Len(created) = 2 /\ total_num = 4 /\ Len(deleted) = 0

\* the sequence numbers of the backups of the active save in a listing
Numbers(listing) == {IntOf(NumberPart(e.name)) : e \in Backups(listing)}

\* C8: the startup scan yields a count equal to the number of backups of the
\* active save and a next number one above the largest of theirs, 0 with none
C8_StartupScan ==
    [][(pc = "Scanning" /\ pc' = "Evicting") =>
          /\ total_num' = Cardinality(Backups(bak))
          /\ Backups(bak) = {} => backup_num' = 0
          /\ Backups(bak) # {} =>
                 /\ backup_num' - 1 \in Numbers(bak)
                 /\ \A n \in Numbers(bak) : n < backup_num']_vars

\* C8 witness: the scan found the backups numbered 0 and 2 and yields 3 and 2
C8_Witness ==
    /\ pc = "Evicting" /\ created = <<>>
    /\ Numbers(bak) = {0, 2} /\ Len(bak) = 2
    /\ backup_num = 3 /\ total_num = 2 /\ LIMIT = 0

\* C9: an interruption during the sleep ends the run with status 0, the save's
\* modification time not re-read, no entry created or deleted, and nothing
\* happens after it
C9_InterruptIsClean ==
    [][/\ (pc = "Sleeping" /\ outcome' = "Interrupted") =>
              /\ pc' = "Terminated" /\ status' = 0
              /\ checks' = checks /\ current_mod' = current_mod
              /\ bak' = bak /\ created' = created /\ deleted' = deleted
              /\ attempts' = attempts
       /\ outcome = "Interrupted" => pc = "Terminated" /\ UNCHANGED vars]_vars

\* C9 witness: interrupted in the sleep after the second backup
C9_Witness ==
    /\ pc = "Terminated" /\ outcome = "Interrupted" /\ status = 0
    /\ Len(created) = 2 /\ checks = 1

\* C10 as claimed: a run that ends because the save is gone ends with SaveRemoved
\* and a non-zero status, found by the check after the sleep, never with another
\* failure
C10_RemovalFoundInChecking ==
    (pc = "Terminated" /\ ~saveExists /\ folderExists
        /\ outcome \in {"SaveRemoved", "FileNotFoundError"}) =>
        outcome = "SaveRemoved" /\ status = 1 /\ checks > 0

\* the save root or one of its playstyle directories cannot be listed
Unlistable(r) ==
    ~r.listable \/ \E i \in 1..Len(r.playstyles) : ~r.playstyles[i].listable

\* C11 as claimed: when the save root or a playstyle cannot be listed, the run
\* ends with the AccessDenied error and a non-zero status, before the backup
\* folder or any backup is created
C11_AccessDeniedReported ==
    (pc = "Terminated" /\ Unlistable(root)) =>
        /\ outcome = "AccessDenied" /\ status = 1
        /\ ~folderExists /\ created = <<>>

\* C12 as claimed: the count and the number with which the cycle after a sleep
\* begins are those a fresh scan of the backup folder returns, whatever the user
\* did to the folder during the sleep
C12_FreshScanEachCycle ==
    [][(pc = "Sleeping" /\ pc' = "Evicting" /\ denied = 0) =>
          /\ total_num' = ScanTotal(bak', latest_save)
          /\ backup_num' = ScanNum(bak', latest_save, 0)]_vars

\* the name begins with the active save's name followed by the separator
Owned(name) == StartsWith(name, latest_save \o SUFFIX_SEPARATOR)

\* C13 as claimed: the entries the startup scan counts are those whose names
\* begin with the active save's name and the separator, and so is every entry
\* that eviction deletes; the entries of other saves and the save directory
\* itself are neither counted nor deleted
C13_OnlyOwnEntries ==
    [][/\ (pc = "Scanning" /\ pc' = "Evicting") =>
              total_num' = Cardinality({e \in EntrySet(Listing) : Owned(e.name)})
       /\ \A i \in 1..Len(deleted') : Owned(deleted'[i].name)]_vars

\* C14: a refused deletion leaves the run in the eviction loop with a smaller
\* count, so the loop ends after finitely many turns even if every deletion is
\* refused, and the run leaves it: for Archiving, or dead of another failure
C14_DeniedDeletionGoesOn ==
    /\ [][denied' # denied =>
              /\ pc = "Evicting" /\ pc' = "Evicting" /\ status' = -1
              /\ total_num' < total_num /\ total_num' >= LIMIT - 1
              /\ denied' = denied + 1]_vars
    /\ (pc = "Evicting") ~> (pc # "Evicting")
    /\ [][(pc = "Evicting" /\ pc' = "Recording") =>
              ~EvictNeeded(LIMIT, total_num) /\ Len(created') = Len(created) + 1]_vars

\* C14 witness: two deletions were tried, both were refused, and the backup was
\* archived all the same
C14_Witness ==
    /\ pc = "Recording" /\ status = -1
    /\ denied = 2 /\ Len(attempts) = 2 /\ deleted = <<>>
    /\ Len(created) = 1

\* C15 as claimed: with the backup folder left to the script, from the startup
\* scan on the count is the number of backups of the active save in the folder,
\* also after a deletion that was refused
C15_CountMatchesFolder ==
    (oob = 0 /\ pc \in {"Evicting", "Recording", "Sleeping"}) =>
        total_num = Cardinality(Backups(bak))

\* C16 as claimed: a turn of the eviction loop whose deletion is not refused
\* removes the selected entry from the folder, be it an archive file or a
\* directory that holds a copied save tree, and the run stays in the loop
C16_EvictionRemovesEntry ==
    [][(/\ Len(attempts') = Len(attempts) + 1
        /\ attempts'[Len(attempts')] # <<>>
        /\ denied' = denied) =>
           /\ ~Exists(bak', attempts'[Len(attempts')])
           /\ pc' = "Evicting" /\ status' = -1]_vars

\* the backup written last, as it is in the folder
LastArtifact == EntryOf(bak, created[Len(created)].name)

CreatedNames == {created[i].name : i \in 1..Len(created)}

\* the backups of the active save that the startup scan found: those in the
\* folder or evicted from it that this run did not write
FoundAtStartup == {e \in Backups(bak) \cup Backups(deleted) : e.name \notin CreatedNames}

\* C18: the numbers of the backups created in a run increase strictly, and each
\* is above the number of every backup of the active save that the startup scan
\* found, evicted since or not; the only evicted entry that bears the number of
\* a created backup is that backup
C18_NumbersIncrease ==
    /\ \A i, j \in 1..Len(created) : i < j => created[i].num < created[j].num
    /\ \A i \in 1..Len(created) : \A e \in FoundAtStartup :
           IntOf(NumberPart(e.name)) < created[i].num
    /\ \A i \in 1..Len(created) : \A d \in EntrySet(deleted) :
           IntOf(NumberPart(d.name)) = created[i].num => d.name = created[i].name

\* C18 witness: the scan found backup 3, which was evicted; the run wrote backup
\* 4, evicted it, and wrote backup 5
C18_Witness ==
    /\ pc = "Sleeping" /\ Len(created) = 2 /\ Len(deleted) = 2
    /\ IntOf(NumberPart(deleted[1].name)) = 3 /\ deleted[1].name \notin CreatedNames
    /\ created[1].num = 4 /\ deleted[2].name = created[1].name
    /\ created[2].num = 5

\* C19 as claimed: what the eviction loop tries to delete is an entry of the
\* backup folder, never the folder itself (the empty name) and never the
\* active save directory
C19_EvictionTargetsEntry ==
    \A i \in 1..Len(attempts) : attempts[i] # <<>> /\ attempts[i] # latest_save

\* C20 as claimed: when the run ends because the save is unchanged, the backup
\* written last holds the save as it is then
C20_LastBackupIsCurrent ==
    (pc = "Terminated" /\ outcome = "Unchanged") =>
        created[Len(created)].content = saveMtime

====
